---- MODULE Spec2Model ----
(***************************************************************************)
(* Model of the cuML benchmark notebook (cuml_benchmarks.ipynb): the       *)
(* session state of the notebook kernel, one action per code cell, and the *)
(* steps of one execute_benchmark invocation.                              *)
(*                                                                         *)
(* The notebook's own code is enrich_result, execute_benchmark, the        *)
(* benchmark cells, the DataFrame conversion, the two chart functions and  *)
(* the CSV export.  SpeedupComparisonRunner.run is library code that the   *)
(* notebook only calls; its sweep loop is modelled from the specification  *)
(* (section 4.1): one record per (row count, feature count, repetition).   *)
(***************************************************************************)
EXTENDS Integers, Sequences, FiniteSets, TLC

VARIABLES
    N_REPS,             \* the notebook global: repetitions per sweep point
    benchmark_results,  \* the notebook global: list of result dicts
    origin,             \* history: for each record, the sweep point that made it
    frame,              \* the running execute_benchmark / runner.run call
    n_inv,              \* number of execute_benchmark invocations started
    failed,             \* history: the sweep point at which the last invocation raised
    fit_log,            \* history: datasets made and fits attempted by the running invocation
    df,                 \* the notebook global df (pd.DataFrame(benchmark_results))
    df_origin,          \* history: origin of each row of df
    out,                \* outcome of the cell executed last
    VERBOSE,            \* the notebook global VERBOSE
    RUN_CPU,            \* the notebook global RUN_CPU
    defaults,           \* the default values execute_benchmark was defined with
    rf,                 \* the kernel namespace and the model file of the pickling notebook
    mg,                 \* the session of the multi-GPU random forest notebook
    km,                 \* the kernel namespace of the k-means notebook
    kernels             \* the pickling and k-means notebooks run top to bottom: names bound

vars == <<N_REPS, benchmark_results, origin, frame, n_inv, failed, fit_log, df, df_origin, out,
          VERBOSE, RUN_CPU, defaults, rf, mg, km, kernels>>

\* The globals of the setup cells and the sessions of the other notebooks,
\* which no benchmark, chart or export cell assigns.
sideVars == <<VERBOSE, RUN_CPU, defaults, mg, km, kernels>>

(***************************************************************************)
(* Bounds of the model.                                                    *)
(***************************************************************************)
MaxRows == 2          \* entries of SMALL_ROW_SIZES the sweeps range over
MaxReps == 2          \* largest N_REPS the configuration cell is run with
MaxInvocations == 2   \* execute_benchmark invocations per session
MaxTrees == 2         \* trees of a random forest (the notebook fits 40)
MaxTest == 2          \* rows of the test split
MaxWorkers == 3       \* GPUs of the host, one Dask worker each
MaxSamples == 4       \* samples the k-means models label (the notebook makes 1000000)
MaxClusters == 2      \* clusters of a k-means model (the notebook asks for 5)

(***************************************************************************)
(* Notebook constants.                                                     *)
(***************************************************************************)
DATA_NEIGHBORHOODS == "blobs"
DATA_CLASSIFICATION == "classification"
DATA_REGRESSION == "regression"
INPUT_TYPE == "numpy"
SMALL_ROW_SIZES == <<16384, 32768, 65536>>
SKINNY_FEATURES == <<32, 256>>
WIDE_FEATURES == <<1000, 10000>>

Min(a, b) == IF a < b THEN a ELSE b

(***************************************************************************)
(* Floating-point values (durations, speedups) are exact rationals <<n,d>> *)
(* in lowest terms; NaN, pandas' marker of a missing cell, is <<0,0>>.     *)
(***************************************************************************)
RECURSIVE GCD(_, _)
GCD(a, b) == IF b = 0 THEN a ELSE GCD(b, a % b)

Rat(n, d) == LET g == GCD(n, d) IN <<n \div g, d \div g>>
RatAdd(a, b) == Rat(a[1] * b[2] + b[1] * a[2], a[2] * b[2])
RatDivInt(a, k) == Rat(a[1], a[2] * k)
NaN == <<0, 0>>
IsNaN(x) == x[2] = 0

(***************************************************************************)
(* Inputs of a benchmark cell.                                             *)
(***************************************************************************)
Site(algorithm, dataset_name, bench_dims, run_cpu_arg) ==
    [algorithm |-> algorithm, dataset_name |-> dataset_name, bench_dims |-> bench_dims,
     run_cpu_arg |-> run_cpu_arg]

\* The benchmark cells of the notebook, from top to bottom.
BenchmarkCells ==
    << Site("NearestNeighbors", DATA_NEIGHBORHOODS, SKINNY_FEATURES, "omitted"),
       Site("KNeighborsClassifier", DATA_CLASSIFICATION, SKINNY_FEATURES, "omitted"),
       Site("KNeighborsRegressor", DATA_REGRESSION, SKINNY_FEATURES, "omitted"),
       Site("DBSCAN", DATA_NEIGHBORHOODS, SKINNY_FEATURES, "omitted"),
       Site("KMeans", DATA_NEIGHBORHOODS, SKINNY_FEATURES, "omitted"),
       Site("UMAP-Unsupervised", DATA_NEIGHBORHOODS, WIDE_FEATURES, "omitted"),
       Site("UMAP-Supervised", DATA_NEIGHBORHOODS, WIDE_FEATURES, "omitted"),
       Site("TSNE", DATA_NEIGHBORHOODS, SKINNY_FEATURES, "False"),
       Site("LinearRegression", DATA_REGRESSION, SKINNY_FEATURES, "omitted"),
       Site("LogisticRegression", DATA_CLASSIFICATION, SKINNY_FEATURES, "omitted"),
       Site("Ridge", DATA_REGRESSION, SKINNY_FEATURES, "omitted"),
       Site("Lasso", DATA_REGRESSION, SKINNY_FEATURES, "omitted"),
       Site("ElasticNet", DATA_REGRESSION, SKINNY_FEATURES, "omitted"),
       Site("MBSGDClassifier", DATA_CLASSIFICATION, SKINNY_FEATURES, "False"),
       Site("PCA", DATA_NEIGHBORHOODS, WIDE_FEATURES, "omitted"),
       Site("TSVD", DATA_NEIGHBORHOODS, WIDE_FEATURES, "omitted"),
       Site("RandomForestClassifier", DATA_CLASSIFICATION, SKINNY_FEATURES, "omitted"),
       Site("RandomForestRegressor", DATA_REGRESSION, SKINNY_FEATURES, "omitted"),
       Site("FIL", DATA_CLASSIFICATION, SKINNY_FEATURES, "omitted"),
       Site("Sparse-FIL-SKL", DATA_CLASSIFICATION, SKINNY_FEATURES, "omitted"),
       Site("GaussianRandomProjection", DATA_NEIGHBORHOODS, WIDE_FEATURES, "omitted"),
       Site("SparseRandomProjection", DATA_NEIGHBORHOODS, WIDE_FEATURES, "omitted"),
       Site("SVC-Linear", DATA_CLASSIFICATION, SKINNY_FEATURES, "False"),
       Site("SVC-RBF", DATA_CLASSIFICATION, SKINNY_FEATURES, "False"),
       Site("SVR-Linear", DATA_REGRESSION, SKINNY_FEATURES, "False"),
       Site("SVR-RBF", DATA_REGRESSION, SKINNY_FEATURES, "omitted") >>

\* The cells a session re-executes in any order: a cell that passes
\* run_cpu=False (TSNE) and a cell that omits the argument (LinearRegression).
CallSites == { BenchmarkCells[8], BenchmarkCells[9] }

Algorithms == { s.algorithm : s \in CallSites }

\* bench_rows=SMALL_ROW_SIZES, cut to the bound of the model.
BenchRows == SubSeq(SMALL_ROW_SIZES, 1, Min(MaxRows, Len(SMALL_ROW_SIZES)))

\* The values N_REPS is set to when the configuration cell is run.
RepChoices == 1..MaxReps

\* Wall-clock durations of the fits: the accelerated fit takes longer on every
\* second (feature count, repetition), the baseline fit always takes the same.
AcceleratedTime(j, r) == Rat(1 + ((j + r) % 2), 1)
BaselineTime(j, r) == Rat(4, 1)

\* SpeedupComparisonRunner(bench_rows=..., bench_dims=..., dataset_name=...,
\*                         input_type=..., n_reps=...)
SpeedupComparisonRunner(rows, dims, dataset, input, reps) ==
    [bench_rows |-> rows, bench_dims |-> dims, dataset_name |-> dataset,
     input_type |-> input, n_reps |-> reps]

NoRunner == SpeedupComparisonRunner(<<>>, <<>>, "", "", 0)

\* Variant: the call-site argument is ignored.
RunCpuDefaultOnly(arg) == defaults.run_cpu

\* Variant: the default is the value the global has when the call is made.
RunCpuLateBound(arg) == IF arg = "omitted" THEN RUN_CPU ELSE arg = "True"

\* def execute_benchmark(algorithm, runner, verbose=VERBOSE, run_cpu=RUN_CPU):
\* a call that omits run_cpu gets the value the default expression had when
\* the def statement was executed.
RunCpuInEffect(arg) == IF arg = "omitted" THEN defaults.run_cpu ELSE arg = "True"

(***************************************************************************)
(* The record of one sweep point and repetition, as runner.run returns it. *)
(***************************************************************************)
\* Variant: the ratio taken the wrong way round.
SpeedupInverted(baseline_time, accelerated_time) ==
    Rat(accelerated_time[1] * baseline_time[2], accelerated_time[2] * baseline_time[1])

Speedup(baseline_time, accelerated_time) ==
    Rat(baseline_time[1] * accelerated_time[2], baseline_time[2] * accelerated_time[1])

ResultRecord(ns, nf, ta, tb, run_cpu) ==
    IF run_cpu
    THEN [n_samples |-> ns, n_features |-> nf, accelerated_time |-> ta,
          baseline_time |-> tb, speedup |-> Speedup(tb, ta)]
    ELSE [n_samples |-> ns, n_features |-> nf, accelerated_time |-> ta]

(***************************************************************************)
(* enrich_result and the append of execute_benchmark.                      *)
(***************************************************************************)
\* Variant: the dataset name is stored under both tag keys.
enrich_result_mistagged(algorithm, runner, result) ==
    ("algo" :> algorithm) @@ ("dataset_name" :> runner.dataset_name)
        @@ ("input_type" :> runner.dataset_name) @@ result

\* Variant: a new record that holds the three tags alone is returned.
enrich_result_tags_only(algorithm, runner, result) ==
    [algo |-> algorithm, dataset_name |-> runner.dataset_name,
     input_type |-> runner.input_type]

\* result["algo"] = algorithm; result["dataset_name"] = runner.dataset_name;
\* result["input_type"] = runner.input_type; return result
enrich_result(algorithm, runner, result) ==
    ("algo" :> algorithm) @@ ("dataset_name" :> runner.dataset_name)
        @@ ("input_type" :> runner.input_type) @@ result

\* Variant: the comprehension loses the last result.
EnrichAllButLast(algorithm, runner, results) ==
    [k \in 1..(Len(results) - 1) |-> enrich_result(algorithm, runner, results[k])]

\* results = [enrich_result(algorithm, runner, result) for result in results]
EnrichAll(algorithm, runner, results) ==
    [k \in 1..Len(results) |-> enrich_result(algorithm, runner, results[k])]

\* Variant: the list is rebound to the new results.
extend_rebinds(list, results) == results

\* Variant: the new results are put in front of the list.
extend_in_front(list, results) == results \o list

\* Variant: a result that the list already holds is not appended again.
extend_without_duplicates(list, results) ==
    list \o SelectSeq(results, LAMBDA r : \A k \in 1..Len(list) : list[k] # r)

\* benchmark_results.extend(results)
extend(list, results) == list \o results

(***************************************************************************)
(* The call frame of execute_benchmark.                                    *)
(***************************************************************************)
NoFrame ==
    [pc |-> "idle", algorithm |-> "", runner |-> NoRunner, verbose |-> FALSE, run_cpu |-> FALSE,
     i |-> 0, j |-> 0, r |-> 0, results |-> <<>>, origins |-> <<>>,
     t_accel |-> NaN, t_base |-> NaN, inv |-> 0]

NRows(f) == Len(f.runner.bench_rows)
NDims(f) == Len(f.runner.bench_dims)
CurSamples(f) == f.runner.bench_rows[f.i]
CurFeatures(f) == f.runner.bench_dims[f.j]
PointKey(f) == <<f.inv, CurSamples(f), CurFeatures(f), f.r>>

CurOrigin(f) ==
    [inv |-> f.inv, algorithm |-> f.algorithm, dataset_name |-> f.runner.dataset_name,
     input_type |-> f.runner.input_type, run_cpu |-> f.run_cpu, rep |-> f.r]

\* Variant: a handler retries the sweep point without the baseline.
AfterRaiseFallback(f) ==
    IF f.run_cpu THEN [f EXCEPT !.run_cpu = FALSE, !.pc = "gen"] ELSE NoFrame

\* Variant: a handler appends what the sweep had produced so far.
ResultsOnRaisePartial(list, f) == list \o EnrichAll(f.algorithm, f.runner, f.results)

\* Variant: a handler appends a placeholder record for the failed point.
ResultsOnRaisePlaceholder(list, f) ==
    Append(list, enrich_result(f.algorithm, f.runner,
                   [n_samples |-> CurSamples(f), n_features |-> CurFeatures(f)]))

\* execute_benchmark has no try/except: an exception raised by a call it makes
\* unwinds the frame, and neither line 91 nor line 92 runs.
AfterRaise(f) == NoFrame
ResultsOnRaise(list, f) == list

NoOutput == [cell |-> "none", status |-> "ok", error |-> "", value |-> <<>>]
Output(cell, status, error, value) ==
    [cell |-> cell, status |-> status, error |-> error, value |-> value]

\* Before the conversion cell has run, the name df is not bound.
NoDataFrame == [defined |-> FALSE, columns |-> {}, rows |-> <<>>]

(***************************************************************************)
(* The pickling notebook (Random Forest and Pickling).  A fitted forest is *)
(* the list of its trees; a tree is the list of the labels it gives to the *)
(* rows of the data, the training rows first and the test rows after them. *)
(* An unbound name is the empty list.                                      *)
(***************************************************************************)
Unbound == <<>>
Labels == {0, 1}
X_cudf_train == [k \in 1..MaxTest |-> k]
X_cudf_test == [k \in 1..MaxTest |-> MaxTest + k]
y_test == [k \in 1..MaxTest |-> k % 2]

\* The trees a fit can build: one that always says 0, one that always says 1
\* and one that says 1 from the second test row on.  Which ones a fit builds
\* is not determined by its arguments (stream and thread timing, line 230).
Trees == { [x \in 1..(2 * MaxTest) |-> 0],
           [x \in 1..(2 * MaxTest) |-> 1],
           [x \in 1..(2 * MaxTest) |-> IF x > MaxTest + 1 THEN 1 ELSE 0] }
Forests == [1..MaxTrees -> Trees]

\* model.predict(X): for each row the label most trees give (0 on a tie).
predict(model, X) ==
    [k \in 1..Len(X) |->
        IF 2 * Cardinality({ t \in 1..Len(model) : model[t][X[k]] = 1 }) > Len(model)
        THEN 1 ELSE 0]

\* accuracy_score(y, preds): the share of rows predicted right.
accuracy_score(y, preds) ==
    Rat(Cardinality({ k \in 1..Len(y) : preds[k] = y[k] }), Len(y))

\* pickle.dump: the stream holds the class, the number of trees and the labels
\* of the trees one after the other.
RECURSIVE Flatten(_)
Flatten(trees) == IF trees = <<>> THEN <<>> ELSE Head(trees) \o Flatten(Tail(trees))

Serialize(model) == <<"RandomForestClassifier", Len(model)>> \o Flatten(model)

\* pickle.load: the trees are cut out of the stream again.
Deserialize(stream) ==
    LET width == (Len(stream) - 2) \div stream[2]
    IN [t \in 1..stream[2] |-> SubSeq(stream, 3 + (t - 1) * width, 2 + t * width)]

RfInit ==
    [cuml_model |-> Unbound, fil_preds_orig |-> Unbound, fil_acc_orig |-> Unbound,
     file |-> Unbound, pickled_cuml_model |-> Unbound,
     pred_after_pickling |-> Unbound, fil_acc_after_pickling |-> Unbound,
     error |-> "",
     evaluated |-> FALSE,    \* history: fil_preds_orig is of the model cuml_model names
     same |-> FALSE,         \* history: ... of the model pickled_cuml_model was saved from
     comparable |-> FALSE]   \* history: ... of the model behind pred_after_pickling

(***************************************************************************)
(* The multi-GPU random forest notebook.  cuml_model.rfs holds one future  *)
(* per Dask worker; a future is pending until its worker has finished the  *)
(* task, and then it is finished or in error.                              *)
(***************************************************************************)
Done == {"finished", "error"}

\* Before any cell has run: no cluster, and the name cuml_model is not bound.
MgInit == [pc |-> "idle", n_workers |-> 0, rfs |-> Unbound, error |-> ""]

\* Variant: wait(cuml_model.rfs, return_when="FIRST_COMPLETED").
wait_first_completed(fs) == \E w \in 1..Len(fs) : fs[w] \in Done

\* wait(cuml_model.rfs) returns when every future of the list is done.
wait(fs) == \A w \in 1..Len(fs) : fs[w] \in Done

(***************************************************************************)
(* The k-means notebook.  A label vector gives each sample the number of   *)
(* its cluster; a fitted model with several centres puts the samples of    *)
(* well separated blobs into at least two clusters, and there are fewer    *)
(* clusters than samples.                                                  *)
(***************************************************************************)
ClusterLabels == 0..(MaxClusters - 1)

Labelings ==
    { l \in [1..MaxSamples -> ClusterLabels] : \E s, t \in 1..MaxSamples : l[s] # l[t] }

Comb2(n) == (n * (n - 1)) \div 2

RECURSIVE SumOf(_, _)
SumOf(f, S) ==
    IF S = {} THEN 0
    ELSE LET x == CHOOSE y \in S : TRUE IN f[x] + SumOf(f, S \ {x})

\* adjusted_rand_score(a, b): (index - expected) / (maximum - expected), where
\* index counts the pairs of samples that both label vectors put together.
adjusted_rand_score(a, b) ==
    LET n == Len(a)
        cells == ClusterLabels \X ClusterLabels
        index == SumOf([p \in cells |->
                          Comb2(Cardinality({ s \in 1..n : a[s] = p[1] /\ b[s] = p[2] }))],
                       cells)
        sum_a == SumOf([i \in ClusterLabels |->
                          Comb2(Cardinality({ s \in 1..n : a[s] = i }))], ClusterLabels)
        sum_b == SumOf([j \in ClusterLabels |->
                          Comb2(Cardinality({ s \in 1..n : b[s] = j }))], ClusterLabels)
        all == Comb2(n)
    IN Rat(2 * (index * all - sum_a * sum_b), (sum_a + sum_b) * all - 2 * sum_a * sum_b)

\* Variant: passed = score >= 0.0
passed_if_not_negative(score) == score[1] >= 0

\* passed = score == 1.0
passed(score) == score = Rat(1, 1)

\* The kernel before any cell has run.  predict_sk and predict_cuml are what
\* the predict calls of the two fitted models return for the data of the
\* session.
KmInit ==
    [predict_sk |-> Unbound, predict_cuml |-> Unbound,
     labels_sk |-> Unbound, labels_cuml |-> Unbound, score |-> Unbound, printed |-> "",
     error |-> ""]

(***************************************************************************)
(* The statements of the pickling and k-means notebooks in the order of    *)
(* the file: the line of the statement, the names it reads, the names it   *)
(* binds and the names it deletes.  Builtins (open, print, len, list) are  *)
(* always bound and are left out.                                          *)
(***************************************************************************)
Statement(line, reads, binds, dels) ==
    [line |-> line, reads |-> reads, binds |-> binds, dels |-> dels]

\* Variant: the prediction after pickling is made with cuml_model.
PicklingNotebookReusingModel ==
    << Statement(25, {}, {"cudf", "np", "pd", "pickle", "curfc", "accuracy_score", "skrfc",
                          "make_classification", "train_test_split"}, {}),
       Statement(57, {}, {"n_samples"}, {}),
       Statement(58, {}, {"n_features"}, {}),
       Statement(59, {}, {"n_info"}, {}),
       Statement(60, {"np"}, {"data_type"}, {}),
       Statement(88, {"make_classification", "n_samples", "n_features", "n_info"},
                     {"X", "y"}, {}),
       Statement(93, {"pd", "X", "data_type"}, {"X"}, {}),
       Statement(95, {"pd", "y", "np"}, {"y"}, {}),
       Statement(97, {"train_test_split", "X", "y"},
                     {"X_train", "X_test", "y_train", "y_test"}, {}),
       Statement(125, {"cudf", "X_train"}, {"X_cudf_train"}, {}),
       Statement(126, {"cudf", "X_test"}, {"X_cudf_test"}, {}),
       Statement(128, {"cudf", "y_train"}, {"y_cudf_train"}, {}),
       Statement(172, {"skrfc"}, {"sk_model"}, {}),
       Statement(177, {"sk_model", "X_train", "y_train"}, {}, {}),
       Statement(203, {"sk_model", "X_test"}, {"sk_predict"}, {}),
       Statement(204, {"accuracy_score", "y_test", "sk_predict"}, {"sk_acc"}, {}),
       Statement(255, {"curfc"}, {"cuml_model"}, {}),
       Statement(260, {"cuml_model", "X_cudf_train", "y_cudf_train"}, {}, {}),
       Statement(286, {"cuml_model", "X_cudf_test"}, {"fil_preds_orig"}, {}),
       Statement(288, {"accuracy_score", "y_test", "fil_preds_orig"}, {"fil_acc_orig"}, {}),
       Statement(304, {}, {"filename"}, {}),
       Statement(306, {"pickle", "cuml_model", "filename"}, {}, {}),
       Statement(309, {"cuml_model"}, {}, {"cuml_model"}),
       Statement(311, {"pickle", "filename"}, {"pickled_cuml_model"}, {}),
       Statement(337, {"cuml_model", "X_cudf_test"}, {"pred_after_pickling"}, {}),
       Statement(339, {"accuracy_score", "y_test", "pred_after_pickling"},
                      {"fil_acc_after_pickling"}, {}),
       Statement(364, {"fil_acc_orig"}, {}, {}),
       Statement(365, {"fil_acc_after_pickling"}, {}, {}),
       Statement(383, {"sk_acc"}, {}, {}),
       Statement(384, {"fil_acc_orig"}, {}, {}) >>

PicklingNotebook ==
    << Statement(25, {}, {"cudf", "np", "pd", "pickle", "curfc", "accuracy_score", "skrfc",
                          "make_classification", "train_test_split"}, {}),
       Statement(57, {}, {"n_samples"}, {}),
       Statement(58, {}, {"n_features"}, {}),
       Statement(59, {}, {"n_info"}, {}),
       Statement(60, {"np"}, {"data_type"}, {}),
       Statement(88, {"make_classification", "n_samples", "n_features", "n_info"},
                     {"X", "y"}, {}),
       Statement(93, {"pd", "X", "data_type"}, {"X"}, {}),
       Statement(95, {"pd", "y", "np"}, {"y"}, {}),
       Statement(97, {"train_test_split", "X", "y"},
                     {"X_train", "X_test", "y_train", "y_test"}, {}),
       Statement(125, {"cudf", "X_train"}, {"X_cudf_train"}, {}),
       Statement(126, {"cudf", "X_test"}, {"X_cudf_test"}, {}),
       Statement(128, {"cudf", "y_train"}, {"y_cudf_train"}, {}),
       Statement(172, {"skrfc"}, {"sk_model"}, {}),
       Statement(177, {"sk_model", "X_train", "y_train"}, {}, {}),
       Statement(203, {"sk_model", "X_test"}, {"sk_predict"}, {}),
       Statement(204, {"accuracy_score", "y_test", "sk_predict"}, {"sk_acc"}, {}),
       Statement(255, {"curfc"}, {"cuml_model"}, {}),
       Statement(260, {"cuml_model", "X_cudf_train", "y_cudf_train"}, {}, {}),
       Statement(286, {"cuml_model", "X_cudf_test"}, {"fil_preds_orig"}, {}),
       Statement(288, {"accuracy_score", "y_test", "fil_preds_orig"}, {"fil_acc_orig"}, {}),
       Statement(304, {}, {"filename"}, {}),
       Statement(306, {"pickle", "cuml_model", "filename"}, {}, {}),
       Statement(309, {"cuml_model"}, {}, {"cuml_model"}),
       Statement(311, {"pickle", "filename"}, {"pickled_cuml_model"}, {}),
       Statement(337, {"pickled_cuml_model", "X_cudf_test"}, {"pred_after_pickling"}, {}),
       Statement(339, {"accuracy_score", "y_test", "pred_after_pickling"},
                      {"fil_acc_after_pickling"}, {}),
       Statement(364, {"fil_acc_orig"}, {}, {}),
       Statement(365, {"fil_acc_after_pickling"}, {}, {}),
       Statement(383, {"sk_acc"}, {}, {}),
       Statement(384, {"fil_acc_orig"}, {}, {}) >>

KMeansNotebook ==
    << Statement(34, {}, {"cuKMeans", "to_dask_df", "make_blobs", "adjusted_rand_score",
                          "Client", "wait", "LocalCUDACluster", "skKMeans", "cp"}, {}),
       Statement(72, {"LocalCUDACluster"}, {"cluster"}, {}),
       Statement(73, {"Client", "cluster"}, {"client"}, {}),
       Statement(89, {}, {"n_samples"}, {}),
       Statement(90, {}, {"n_features"}, {}),
       Statement(92, {"client"}, {"n_total_partitions"}, {}),
       Statement(112, {"make_blobs", "n_samples", "n_features", "n_total_partitions"},
                      {"X_dca", "Y_dca"}, {}),
       Statement(135, {"X_dca"}, {"X_cp"}, {}),
       Statement(136, {"cp", "X_cp"}, {"X_np"}, {}),
       Statement(137, {"X_cp"}, {}, {"X_cp"}),
       Statement(188, {"skKMeans"}, {"kmeans_sk"}, {}),
       Statement(193, {"kmeans_sk", "X_np"}, {}, {}),
       Statement(212, {"kmeans_sk", "X_np"}, {"labels_sk"}, {}),
       Statement(250, {"cuKMeans"}, {"kmeans_cuml"}, {}),
       Statement(254, {"kmeans_cuml", "X_dca"}, {}, {}),
       Statement(273, {"kmeans_cuml", "X_dca"}, {"labels_cuml"}, {}),
       Statement(289, {"adjusted_rand_score", "labels_sk", "labels_cuml"}, {"score"}, {}),
       Statement(306, {"score"}, {"passed"}, {}),
       Statement(307, {"passed"}, {}, {}) >>

Notebooks == {"pickling", "kmeans"}

StatementsOf(notebook) ==
    IF notebook = "pickling" THEN PicklingNotebook ELSE KMeansNotebook

\* A fresh kernel: the next statement is the first one and no name is bound.
KernelInit == [pc |-> 1, bound |-> {}, deleted |-> {}, error |-> ""]

\* The benchmark, pickling and random forest notebooks before their first cell.
InitMain ==
    /\ N_REPS \in RepChoices
    /\ benchmark_results = <<>>
    /\ origin = <<>>
    /\ frame = NoFrame
    /\ n_inv = 0
    /\ failed = {}
    /\ fit_log = <<>>
    /\ df = NoDataFrame
    /\ df_origin = <<>>
    /\ out = NoOutput
    /\ VERBOSE = TRUE
    /\ RUN_CPU = TRUE
    /\ defaults = [verbose |-> VERBOSE, run_cpu |-> RUN_CPU]
    /\ rf = RfInit
    /\ mg = MgInit
    /\ kernels = [n \in Notebooks |-> KernelInit]

Init ==
    /\ InitMain
    /\ km = KmInit

\* A session of the k-means notebook: the data and the two fitted models can
\* be any that give label vectors of the kind above.
KMeansInit ==
    /\ InitMain
    /\ \E a, b \in Labelings : km = [KmInit EXCEPT !.predict_sk = a, !.predict_cuml = b]

\* Variant: a cell is run whether or not a call is in progress.
IdleOrBusy == frame.pc \in {"idle", "lookup", "gen", "fit_accel", "fit_base", "metric", "extend"}

\* The kernel runs a cell only when no cell, and so no call, is in progress.
Idle == frame.pc = "idle"

(***************************************************************************)
(* Cell: N_REPS = 3 ... benchmark_results = []                             *)
(***************************************************************************)
ConfigCell(n_reps) ==
    /\ Idle
    /\ N_REPS' = n_reps
    /\ benchmark_results' = <<>>
    /\ origin' = <<>>
    /\ out' = Output("config", "ok", "", <<>>)
    /\ UNCHANGED <<sideVars, rf, frame, n_inv, failed, fit_log, df, df_origin>>

(***************************************************************************)
(* Cell: SMALL_ROW_SIZES = ... VERBOSE=True, RUN_CPU=True, executed with   *)
(* the values the user has written for the two flags.                      *)
(***************************************************************************)
SizesCell(verbose, run_cpu) ==
    /\ Idle
    /\ VERBOSE' = verbose
    /\ RUN_CPU' = run_cpu
    /\ out' = Output("sizes", "ok", "", <<>>)
    /\ UNCHANGED <<defaults, mg, km, kernels, rf, N_REPS, benchmark_results, origin, frame, n_inv, failed,
                   fit_log, df, df_origin>>

(***************************************************************************)
(* Cell: def enrich_result ...; def execute_benchmark(..., verbose=VERBOSE,*)
(* run_cpu=RUN_CPU, **kwargs).  The def statement evaluates the default    *)
(* expressions and stores the values in the function object.               *)
(***************************************************************************)
DefineCell ==
    /\ Idle
    /\ defaults' = [verbose |-> VERBOSE, run_cpu |-> RUN_CPU]
    /\ out' = Output("define", "ok", "", <<>>)
    /\ UNCHANGED <<VERBOSE, RUN_CPU, mg, km, kernels, rf, N_REPS, benchmark_results, origin, frame, n_inv,
                   failed, fit_log, df, df_origin>>

(***************************************************************************)
(* A benchmark cell: runner = SpeedupComparisonRunner(...);                *)
(* execute_benchmark(algorithm, runner[, run_cpu=False]).                  *)
(***************************************************************************)
StartBenchmark(site) ==
    /\ Idle
    /\ n_inv' = n_inv + 1
    /\ frame' = [NoFrame EXCEPT
                    !.pc = "lookup",
                    !.algorithm = site.algorithm,
                    !.runner = SpeedupComparisonRunner(BenchRows, site.bench_dims,
                                                       site.dataset_name,
                                                       INPUT_TYPE, N_REPS),
                    !.verbose = defaults.verbose,
                    !.run_cpu = RunCpuInEffect(site.run_cpu_arg),
                    !.inv = n_inv + 1]
    /\ failed' = {}
    /\ fit_log' = <<>>
    /\ out' = Output("benchmark", "running", "", <<>>)
    /\ UNCHANGED <<sideVars, rf, N_REPS, benchmark_results, origin, df, df_origin>>

\* A benchmark cell executed by hand; a session starts MaxInvocations of them.
BenchmarkCell(site) ==
    /\ n_inv < MaxInvocations
    /\ StartBenchmark(site)

\* algorithm_by_name(algorithm) returns; runner.run starts its sweep.
AlgorithmByName ==
    /\ frame.pc = "lookup"
    /\ frame' = [frame EXCEPT !.pc = "gen", !.i = 1, !.j = 1, !.r = 1]
    /\ UNCHANGED <<sideVars, rf, N_REPS, benchmark_results, origin, n_inv, failed, fit_log, df, df_origin, out>>

\* runner.run, step 1: synthesize the dataset of the sweep point.
GenData ==
    /\ frame.pc = "gen"
    /\ frame' = [frame EXCEPT !.pc = "fit_accel"]
    /\ fit_log' = Append(fit_log, <<frame.i, frame.j, frame.r, "gen">>)
    /\ UNCHANGED <<sideVars, rf, N_REPS, benchmark_results, origin, n_inv, failed, df, df_origin, out>>

\* runner.run, step 2: construct and fit the accelerated estimator, timed.
FitAccelerated ==
    /\ frame.pc = "fit_accel"
    /\ frame' = [frame EXCEPT
                    !.pc = IF frame.run_cpu THEN "fit_base" ELSE "metric",
                    !.t_accel = AcceleratedTime(frame.j, frame.r)]
    /\ fit_log' = Append(fit_log, <<frame.i, frame.j, frame.r, "accelerated">>)
    /\ UNCHANGED <<sideVars, rf, N_REPS, benchmark_results, origin, n_inv, failed, df, df_origin, out>>

\* runner.run, step 3: if the baseline is enabled, fit the reference estimator.
FitBaseline ==
    /\ frame.pc = "fit_base"
    /\ frame' = [frame EXCEPT
                    !.pc = "metric",
                    !.t_base = BaselineTime(frame.j, frame.r)]
    /\ fit_log' = Append(fit_log, <<frame.i, frame.j, frame.r, "baseline">>)
    /\ UNCHANGED <<sideVars, rf, N_REPS, benchmark_results, origin, n_inv, failed, df, df_origin, out>>

\* Variant: the repetitions of a sweep point are fitted on one dataset.
AdvanceReusingData(f) ==
    IF f.r < f.runner.n_reps THEN [f EXCEPT !.pc = "fit_accel", !.r = f.r + 1]
    ELSE IF f.j < NDims(f) THEN [f EXCEPT !.pc = "gen", !.j = f.j + 1, !.r = 1]
    ELSE IF f.i < NRows(f) THEN [f EXCEPT !.pc = "gen", !.i = f.i + 1, !.j = 1, !.r = 1]
    ELSE [f EXCEPT !.pc = "extend"]

\* The position of the sweep after the current repetition: rows outer,
\* features inner, repetition innermost.
Advance(f) ==
    IF f.r < f.runner.n_reps THEN [f EXCEPT !.pc = "gen", !.r = f.r + 1]
    ELSE IF f.j < NDims(f) THEN [f EXCEPT !.pc = "gen", !.j = f.j + 1, !.r = 1]
    ELSE IF f.i < NRows(f) THEN [f EXCEPT !.pc = "gen", !.i = f.i + 1, !.j = 1, !.r = 1]
    ELSE [f EXCEPT !.pc = "extend"]

\* runner.run, steps 4 and 5: compute the metric and emit the record.
Metric ==
    /\ frame.pc = "metric"
    /\ LET rec == ResultRecord(CurSamples(frame), CurFeatures(frame),
                               frame.t_accel, frame.t_base, frame.run_cpu)
           f1 == [frame EXCEPT !.results = Append(frame.results, rec),
                               !.origins = Append(frame.origins, CurOrigin(frame)),
                               !.t_accel = NaN, !.t_base = NaN]
       IN frame' = Advance(f1)
    /\ UNCHANGED <<sideVars, rf, N_REPS, benchmark_results, origin, n_inv, failed, fit_log, df, df_origin, out>>

\* An external call of the running sweep point raises; nothing catches it.
Raise ==
    /\ frame.pc \in {"gen", "fit_accel", "fit_base", "metric"}
    /\ frame' = AfterRaise(frame)
    /\ benchmark_results' = ResultsOnRaise(benchmark_results, frame)
    /\ origin' = origin \o [k \in 1..(Len(benchmark_results') - Len(benchmark_results))
                                |-> CurOrigin(frame)]
    /\ failed' = {PointKey(frame)}
    /\ fit_log' = IF frame.pc \in {"fit_accel", "fit_base"}
                  THEN Append(fit_log, <<frame.i, frame.j, frame.r,
                         IF frame.pc = "fit_accel" THEN "accelerated" ELSE "baseline">>)
                  ELSE fit_log
    /\ out' = Output("benchmark", "error", frame.pc, <<>>)
    /\ UNCHANGED <<sideVars, rf, N_REPS, n_inv, df, df_origin>>

\* Variant: a timeout around runner.run cancels the call and ends the invocation.
AfterHangTimeout(f) == NoFrame

\* execute_benchmark waits for runner.run without a timeout: a fit that does
\* not return leaves the call, and the cell, where they are.
AfterHang(f) == [f EXCEPT !.pc = "hung"]

\* The fit in progress never returns.
Hang ==
    /\ frame.pc \in {"fit_accel", "fit_base"}
    /\ frame' = AfterHang(frame)
    /\ UNCHANGED <<sideVars, rf, N_REPS, benchmark_results, origin, n_inv, failed, fit_log, df, df_origin, out>>

(***************************************************************************)
(* df = pd.DataFrame(benchmark_results): the columns are the union of the  *)
(* keys of the dicts; a key a dict lacks becomes a NaN cell of its row.    *)
(***************************************************************************)
Keys(list) == UNION { DOMAIN list[k] : k \in 1..Len(list) }

\* Variant: a missing key becomes a zero cell.
DataFrameZeroFilled(list) ==
    LET columns == Keys(list)
    IN [defined |-> TRUE, columns |-> columns,
        rows |-> [k \in 1..Len(list) |->
                    [c \in columns |-> IF c \in DOMAIN list[k] THEN list[k][c] ELSE Rat(0, 1)]]]

DataFrame(list) ==
    LET columns == Keys(list)
    IN [defined |-> TRUE, columns |-> columns,
        rows |-> [k \in 1..Len(list) |->
                    [c \in columns |-> IF c \in DOMAIN list[k] THEN list[k][c] ELSE NaN]]]

\* Variant: df is a live view of the list, so an append shows in it at once.
ExtendResultsRefreshing ==
    /\ frame.pc = "extend"
    /\ benchmark_results' =
          extend(benchmark_results, EnrichAll(frame.algorithm, frame.runner, frame.results))
    /\ origin' = extend(origin, frame.origins)
    /\ frame' = NoFrame
    /\ fit_log' = <<>>
    /\ out' = Output("benchmark", "ok", "", <<>>)
    /\ df' = IF df.defined THEN DataFrame(benchmark_results') ELSE df
    /\ df_origin' = IF df.defined THEN origin' ELSE df_origin
    /\ UNCHANGED <<sideVars, rf, N_REPS, n_inv, failed>>

\* execute_benchmark, lines 91-92: runner.run has returned its list.
ExtendResults ==
    /\ frame.pc = "extend"
    /\ benchmark_results' =
          extend(benchmark_results, EnrichAll(frame.algorithm, frame.runner, frame.results))
    /\ origin' = extend(origin, frame.origins)
    /\ frame' = NoFrame
    /\ fit_log' = <<>>
    /\ out' = Output("benchmark", "ok", "", <<>>)
    /\ UNCHANGED <<sideVars, rf, N_REPS, n_inv, failed, df, df_origin>>

(***************************************************************************)
(* chart_single_algo_speedup: df.loc[df.algo == algorithm], then           *)
(* df.pivot(index="n_samples", columns="n_features", values="speedup").    *)
(***************************************************************************)
Table(status, error, index, columns, cell) ==
    [status |-> status, error |-> error, index |-> index, columns |-> columns, cell |-> cell]

ErrorTable(error) == Table("error", error, {}, {}, <<>>)

\* Positions of the rows of frame d that d.loc[d.algo == algorithm] keeps.
Selected(d, algorithm) == { k \in 1..Len(d.rows) : d.rows[k].algo = algorithm }

\* Positions among K that feed the cell (ns, nf).
Feeding(d, K, ns, nf) ==
    { k \in K : d.rows[k].n_samples = ns /\ d.rows[k].n_features = nf }

Pivot(d, K) ==
    IF ~ ({"n_samples", "n_features", "speedup"} \subseteq d.columns)
    THEN ErrorTable("KeyError")
    ELSE LET index == { d.rows[k].n_samples : k \in K }
             columns == { d.rows[k].n_features : k \in K }
         IN IF \E ns \in index, nf \in columns : Cardinality(Feeding(d, K, ns, nf)) > 1
            THEN ErrorTable("ValueError")
            ELSE Table("ok", "", index, columns,
                       [p \in index \X columns |->
                          LET F == Feeding(d, K, p[1], p[2])
                          IN IF F = {} THEN NaN ELSE d.rows[CHOOSE k \in F : TRUE].speedup])

chart_single_algo_speedup(d, algorithm) ==
    IF "algo" \notin d.columns
    THEN ErrorTable("AttributeError")
    ELSE Pivot(d, Selected(d, algorithm))

(***************************************************************************)
(* chart_all_algo_speedup:                                                 *)
(* df[["algo","n_samples","speedup"]].groupby(["algo","n_samples"]).mean() *)
(***************************************************************************)
RECURSIVE SumOver(_, _)
SumOver(d, K) ==
    IF K = {} THEN Rat(0, 1)
    ELSE LET k == CHOOSE x \in K : TRUE
         IN RatAdd(d.rows[k].speedup, SumOver(d, K \ {k}))

\* mean() of the speedup cells at positions K; NaN cells are skipped.
MeanSpeedup(d, K) ==
    LET V == { k \in K : ~IsNaN(d.rows[k].speedup) }
    IN IF V = {} THEN NaN ELSE RatDivInt(SumOver(d, V), Cardinality(V))

\* Variant: the feature count is one of the groupby columns.
GroupKeyWithFeatures(row) == <<row.algo, row.n_samples, row.n_features>>

\* The group of a row: the values of the columns given to groupby.
GroupKey(row) == <<row.algo, row.n_samples>>

GroupTable(status, error, keys, mean) ==
    [status |-> status, error |-> error, keys |-> keys, mean |-> mean]

\* Variant: groupby(..., sort=False), the groups in order of first appearance.
RECURSIVE FirstSeen(_, _)
FirstSeen(d, n) ==
    IF n = 0 THEN <<>>
    ELSE LET before == FirstSeen(d, n - 1)
             g == GroupKey(d.rows[n])
         IN IF \E k \in 1..Len(before) : before[k] = g THEN before ELSE Append(before, g)

chart_all_algo_speedup_unsorted(d) ==
    IF ~ ({"algo", "n_samples", "speedup"} \subseteq d.columns)
    THEN GroupTable("error", "KeyError", {}, <<>>)
    ELSE LET keys == FirstSeen(d, Len(d.rows))
         IN GroupTable("ok", "", keys,
                [n \in 1..Len(keys) |->
                   MeanSpeedup(d, { k \in 1..Len(d.rows) : GroupKey(d.rows[k]) = keys[n] })])

chart_all_algo_speedup(d) ==
    IF ~ ({"algo", "n_samples", "speedup"} \subseteq d.columns)
    THEN GroupTable("error", "KeyError", {}, <<>>)
    ELSE LET keys == { GroupKey(d.rows[k]) : k \in 1..Len(d.rows) }
         IN GroupTable("ok", "", keys,
                [g \in keys |->
                   MeanSpeedup(d, { k \in 1..Len(d.rows) : GroupKey(d.rows[k]) = g })])

(***************************************************************************)
(* df.to_csv("benchmark_results.csv"): one line per row, one field per     *)
(* column; a NaN cell is written as an empty field.                        *)
(***************************************************************************)
EmptyField == <<>>

\* Variant: only the numeric columns are written.
to_csv_numeric_only(d) ==
    LET columns == d.columns \ {"algo", "dataset_name", "input_type"}
    IN [header |-> columns,
        lines |-> [k \in 1..Len(d.rows) |->
                     [c \in columns |->
                        IF c \in {"accelerated_time", "baseline_time", "speedup"}
                           /\ IsNaN(d.rows[k][c])
                        THEN EmptyField ELSE d.rows[k][c]]]]

to_csv(d) ==
    [header |-> d.columns,
     lines |-> [k \in 1..Len(d.rows) |->
                  [c \in d.columns |->
                     IF c \in {"accelerated_time", "baseline_time", "speedup"}
                        /\ IsNaN(d.rows[k][c])
                     THEN EmptyField ELSE d.rows[k][c]]]]

(***************************************************************************)
(* The cells that consume benchmark_results.                               *)
(***************************************************************************)
ConvertCell ==
    /\ Idle
    /\ df' = DataFrame(benchmark_results)
    /\ df_origin' = origin
    /\ out' = Output("convert", "ok", "", <<>>)
    /\ UNCHANGED <<sideVars, rf, N_REPS, benchmark_results, origin, frame, n_inv, failed, fit_log>>

ChartSingleCell(algorithm) ==
    /\ Idle
    /\ LET t == IF df.defined THEN chart_single_algo_speedup(df, algorithm)
                ELSE ErrorTable("NameError")
       IN out' = Output("chart_single", t.status, t.error, [algorithm |-> algorithm, table |-> t])
    /\ UNCHANGED <<sideVars, rf, N_REPS, benchmark_results, origin, frame, n_inv, failed, fit_log, df, df_origin>>

ChartAllCell ==
    /\ Idle
    /\ LET t == IF df.defined THEN chart_all_algo_speedup(df)
                ELSE GroupTable("error", "NameError", {}, <<>>)
       IN out' = Output("chart_all", t.status, t.error, t)
    /\ UNCHANGED <<sideVars, rf, N_REPS, benchmark_results, origin, frame, n_inv, failed, fit_log, df, df_origin>>

CsvCell ==
    /\ Idle
    /\ out' = IF df.defined THEN Output("csv", "ok", "", to_csv(df))
               ELSE Output("csv", "error", "NameError", <<>>)
    /\ UNCHANGED <<sideVars, rf, N_REPS, benchmark_results, origin, frame, n_inv, failed, fit_log, df, df_origin>>

(***************************************************************************)
(* The cells of the pickling notebook.                                     *)
(***************************************************************************)
benchVars == <<N_REPS, benchmark_results, origin, frame, n_inv, failed, fit_log, df,
               df_origin, out>>

\* cuml_model = curfc(n_estimators=40, ...); cuml_model.fit(X_cudf_train, y_cudf_train)
RfFitCell(forest) ==
    /\ rf' = [rf EXCEPT !.cuml_model = forest, !.error = "", !.evaluated = FALSE]
    /\ UNCHANGED <<sideVars, benchVars>>

\* fil_preds_orig = cuml_model.predict(X_cudf_test); fil_acc_orig = accuracy_score(...)
RfEvaluateCell ==
    /\ rf' = IF rf.cuml_model = Unbound
             THEN [rf EXCEPT !.error = "NameError"]
             ELSE LET preds == predict(rf.cuml_model, X_cudf_test)
                  IN [rf EXCEPT !.fil_preds_orig = preds,
                                !.fil_acc_orig = accuracy_score(y_test, preds),
                                !.error = "",
                                !.evaluated = TRUE, !.same = FALSE, !.comparable = FALSE]
    /\ UNCHANGED <<sideVars, benchVars>>

\* pickle.dump(cuml_model, open(filename, 'wb')); del cuml_model;
\* pickled_cuml_model = pickle.load(open(filename, 'rb')).  The file object of
\* the dump is released, and so flushed and closed, when the call returns.
RfPickleCell ==
    /\ rf' = IF rf.cuml_model = Unbound
             THEN [rf EXCEPT !.error = "NameError"]
             ELSE LET stream == Serialize(rf.cuml_model)
                  IN [rf EXCEPT !.file = stream,
                                !.cuml_model = Unbound,
                                !.pickled_cuml_model = Deserialize(stream),
                                !.error = "",
                                !.evaluated = FALSE, !.same = rf.evaluated]
    /\ UNCHANGED <<sideVars, benchVars>>

\* Variant: the pickled model predicts the training rows.
pred_after_pickling_on_train(model) == predict(model, X_cudf_train)

\* pred_after_pickling = pickled_cuml_model.predict(X_cudf_test)
pred_after_pickling(model) == predict(model, X_cudf_test)

RfPredictPickledCell ==
    /\ rf' = IF rf.pickled_cuml_model = Unbound
             THEN [rf EXCEPT !.error = "NameError"]
             ELSE LET preds == pred_after_pickling(rf.pickled_cuml_model)
                  IN [rf EXCEPT !.pred_after_pickling = preds,
                                !.fil_acc_after_pickling = accuracy_score(y_test, preds),
                                !.error = "",
                                !.comparable = rf.same]
    /\ UNCHANGED <<sideVars, benchVars>>

RfNext ==
    \/ \E forest \in Forests : RfFitCell(forest)
    \/ RfEvaluateCell
    \/ RfPickleCell
    \/ RfPredictPickledCell

PickleSpec == Init /\ [][RfNext]_vars

(***************************************************************************)
(* The cells of the multi-GPU random forest notebook, and the workers.     *)
(***************************************************************************)
mainVars == <<benchVars, VERBOSE, RUN_CPU, defaults, rf, km, kernels>>

\* cluster = LocalCUDACluster(threads_per_worker=1); c = Client(cluster);
\* workers = c.has_what().keys(); n_workers = len(workers)
MgClusterCell(n) ==
    /\ mg.pc = "idle"
    /\ mg' = [mg EXCEPT !.n_workers = n, !.error = ""]
    /\ UNCHANGED mainVars

\* cuml_model = cumlDaskRF(...); cuml_model.fit(X_train_dask, y_train_dask):
\* one training task per worker is submitted, and the cell goes on to
\* wait(cuml_model.rfs).
MgTrainCell ==
    /\ mg.pc = "idle"
    /\ mg' = IF mg.n_workers = 0
             THEN [mg EXCEPT !.error = "NameError"]
             ELSE [mg EXCEPT !.pc = "wait",
                             !.rfs = [w \in 1..mg.n_workers |-> "pending"],
                             !.error = ""]
    /\ UNCHANGED mainVars

\* A worker ends its training task, with a model or with an exception.
MgWorkerEnds(w, status) ==
    /\ w \in 1..Len(mg.rfs)
    /\ mg.rfs[w] = "pending"
    /\ mg' = [mg EXCEPT !.rfs[w] = status]
    /\ UNCHANGED mainVars

\* wait(cuml_model.rfs) returns and the training cell ends.
MgWaitReturns ==
    /\ mg.pc = "wait"
    /\ wait(mg.rfs)
    /\ mg' = [mg EXCEPT !.pc = "idle"]
    /\ UNCHANGED mainVars

\* cuml_y_pred = cuml_model.predict(X_test_dask).compute().to_numpy()
MgPredictCell ==
    /\ mg.pc = "idle"
    /\ mg' = IF mg.rfs = Unbound
             THEN [mg EXCEPT !.error = "NameError"]
             ELSE [mg EXCEPT !.pc = "predict", !.error = ""]
    /\ UNCHANGED mainVars

\* The prediction returns (or raises, when a training task had failed).
MgPredictReturns ==
    /\ mg.pc = "predict"
    /\ mg' = [mg EXCEPT !.pc = "idle",
                        !.error = IF \E w \in 1..Len(mg.rfs) : mg.rfs[w] = "error"
                                  THEN "error" ELSE ""]
    /\ UNCHANGED mainVars

MgNext ==
    \/ \E n \in 1..MaxWorkers : MgClusterCell(n)
    \/ MgTrainCell
    \/ \E w \in 1..MaxWorkers, status \in Done : MgWorkerEnds(w, status)
    \/ MgWaitReturns
    \/ MgPredictCell
    \/ MgPredictReturns

MnmgSpec == Init /\ [][MgNext]_vars

(***************************************************************************)
(* The cells of the k-means notebook.                                      *)
(***************************************************************************)
kmOthers == <<benchVars, VERBOSE, RUN_CPU, defaults, rf, mg, kernels>>

\* labels_sk = kmeans_sk.predict(X_np).compute()
KmPredictSkCell ==
    /\ km' = [km EXCEPT !.labels_sk = km.predict_sk, !.error = ""]
    /\ UNCHANGED kmOthers

\* labels_cuml = kmeans_cuml.predict(X_dca).compute()
KmPredictCumlCell ==
    /\ km' = [km EXCEPT !.labels_cuml = km.predict_cuml, !.error = ""]
    /\ UNCHANGED kmOthers

\* score = adjusted_rand_score(labels_sk, labels_cuml)
KmScoreCell ==
    /\ km' = IF km.labels_sk = Unbound \/ km.labels_cuml = Unbound
             THEN [km EXCEPT !.error = "NameError"]
             ELSE [km EXCEPT !.score = adjusted_rand_score(km.labels_sk, km.labels_cuml),
                             !.error = ""]
    /\ UNCHANGED kmOthers

\* passed = score == 1.0
\* print('compare kmeans: cuml vs sklearn labels_ are ' + ('equal' if passed else 'NOT equal'))
KmCompareCell ==
    /\ km' = IF km.score = Unbound
             THEN [km EXCEPT !.error = "NameError"]
             ELSE [km EXCEPT !.printed = IF passed(km.score) THEN "equal" ELSE "NOT equal",
                             !.error = ""]
    /\ UNCHANGED kmOthers

KmNext ==
    \/ KmPredictSkCell
    \/ KmPredictCumlCell
    \/ KmScoreCell
    \/ KmCompareCell

KMeansSpec == KMeansInit /\ [][KmNext]_vars

(***************************************************************************)
(* Run All in the pickling and the k-means notebook, each in a kernel of   *)
(* its own: the statements run in the order of the file and the run stops  *)
(* at the first statement that raises.                                     *)
(***************************************************************************)
kernelOthers == <<benchVars, VERBOSE, RUN_CPU, defaults, rf, mg, km>>

Running(notebook) ==
    /\ kernels[notebook].error = ""
    /\ kernels[notebook].pc <= Len(StatementsOf(notebook))

\* The next statement runs: reading a name that is not bound raises
\* NameError, also in a del; otherwise its names are bound or removed.
ExecuteStatement(notebook) ==
    /\ Running(notebook)
    /\ LET k == kernels[notebook]
           st == StatementsOf(notebook)[k.pc]
       IN kernels' = [kernels EXCEPT ![notebook] =
              IF st.reads \subseteq k.bound
              THEN [k EXCEPT !.pc = k.pc + 1,
                             !.bound = (k.bound \cup st.binds) \ st.dels,
                             !.deleted = (k.deleted \cup st.dels) \ st.binds]
              ELSE [k EXCEPT !.error = "NameError"]]
    /\ UNCHANGED kernelOthers

\* A call or an import of the next statement raises an exception of its own.
StatementRaises(notebook) ==
    /\ Running(notebook)
    /\ LET k == kernels[notebook]
           st == StatementsOf(notebook)[k.pc]
       IN /\ st.dels = {}
          /\ st.reads \subseteq k.bound
          /\ kernels' = [kernels EXCEPT ![notebook] = [k EXCEPT !.error = "Exception"]]
    /\ UNCHANGED kernelOthers

KernelsNext ==
    \/ \E notebook \in Notebooks : ExecuteStatement(notebook)
    \/ \E notebook \in Notebooks : StatementRaises(notebook)

KernelsSpec == Init /\ [][KernelsNext]_vars

Next ==
    \/ \E n_reps \in RepChoices : ConfigCell(n_reps)
    \/ \E site \in CallSites : BenchmarkCell(site)
    \/ AlgorithmByName
    \/ GenData
    \/ FitAccelerated
    \/ FitBaseline
    \/ Metric
    \/ Raise
    \/ Hang
    \/ ExtendResults
    \/ ConvertCell
    \/ \E algorithm \in Algorithms : ChartSingleCell(algorithm)
    \/ ChartAllCell
    \/ CsvCell

Spec == Init /\ [][Next]_vars

\* The interpreter keeps executing the running call: a step of the invocation
\* that can be taken is taken, unless the call raises or hangs first.
InvocationStep ==
    \/ AlgorithmByName
    \/ GenData
    \/ FitAccelerated
    \/ FitBaseline
    \/ Metric
    \/ ExtendResults

LiveSpec == Init /\ [][Next]_vars /\ WF_vars(InvocationStep)

\* The session in which the user also re-executes the two setup cells that
\* bind the flags and define execute_benchmark.
DefaultsNext ==
    \/ \E verbose, run_cpu \in BOOLEAN : SizesCell(verbose, run_cpu)
    \/ DefineCell
    \/ \E site \in CallSites : BenchmarkCell(site)
    \/ InvocationStep

DefaultsSpec == Init /\ [][DefaultsNext]_vars

(***************************************************************************)
(* The notebook executed top to bottom (Run All): each cell is run once,   *)
(* in the order of the file, and the run stops at the first cell that      *)
(* raises.  The cell run last and the number of benchmark cells started    *)
(* give the position of the run.                                           *)
(***************************************************************************)
Ran(cell) == out.cell = cell /\ out.status = "ok"

RunAllNext ==
    \/ out.cell = "none" /\ \E n_reps \in RepChoices : ConfigCell(n_reps)
    \/ Ran("config") /\ SizesCell(TRUE, TRUE)
    \/ Ran("sizes") /\ DefineCell
    \/ /\ Ran("define") \/ Ran("benchmark")
       /\ n_inv < Len(BenchmarkCells)
       /\ StartBenchmark(BenchmarkCells[n_inv + 1])
    \/ InvocationStep
    \/ Raise
    \/ Ran("benchmark") /\ n_inv = Len(BenchmarkCells) /\ ConvertCell
    \/ Ran("convert") /\ ChartSingleCell("LinearRegression")
    \/ Ran("chart_single") /\ ChartAllCell
    \/ Ran("chart_all") /\ CsvCell

RunAllSpec == Init /\ [][RunAllNext]_vars

(***************************************************************************)
(* Helpers of the properties.                                              *)
(***************************************************************************)
IsPrefix(s, t) == Len(s) <= Len(t) /\ SubSeq(t, 1, Len(s)) = s

\* The step in which execute_benchmark appends the list runner.run returned.
Completes == frame.pc = "extend" /\ frame'.pc = "idle" /\ out'.status = "ok"

\* The step in which a call made by the running invocation raises.
Fails == frame.pc # "idle" /\ out'.cell = "benchmark" /\ out'.status = "error"

\* Positions appended by the current step.
Appended == (Len(benchmark_results) + 1)..Len(benchmark_results')

(***************************************************************************)
(* C1: an execute_benchmark invocation that completes without error        *)
(* appends len(bench_rows) * len(bench_dims) * n_reps records, exactly one *)
(* per (row count, feature count, repetition).                             *)
(***************************************************************************)
C1_RecordCount ==
    [][Completes =>
         /\ Len(benchmark_results') =
               Len(benchmark_results) + NRows(frame) * NDims(frame) * frame.runner.n_reps
         /\ \A i \in 1..NRows(frame), j \in 1..NDims(frame), r \in 1..frame.runner.n_reps :
               Cardinality({ k \in Appended :
                               /\ benchmark_results'[k].n_samples = frame.runner.bench_rows[i]
                               /\ benchmark_results'[k].n_features = frame.runner.bench_dims[j]
                               /\ origin'[k].rep = r }) = 1]_vars

\* A sweep of two row counts, two feature counts and two repetitions has completed.
C1_Witness ==
    /\ out.cell = "benchmark" /\ out.status = "ok"
    /\ Len(benchmark_results) = 8
    /\ \A k \in 1..Len(origin) : origin[k].inv = origin[1].inv

(***************************************************************************)
(* C2: with the baseline enabled, every record's speedup is its baseline   *)
(* runtime divided by its accelerated runtime.                             *)
(***************************************************************************)
C2_SpeedupIsRatio ==
    \A k \in 1..Len(benchmark_results) :
        origin[k].run_cpu =>
            LET rec == benchmark_results[k]
            IN /\ {"speedup", "baseline_time", "accelerated_time"} \subseteq DOMAIN rec
               /\ rec.speedup[2] # 0
               /\ rec.speedup[1] * rec.accelerated_time[1] * rec.baseline_time[2]
                     = rec.baseline_time[1] * rec.speedup[2] * rec.accelerated_time[2]

\* A baseline of 4 against an accelerated fit of 2, and one of 4 against 1.
C2_Witness ==
    /\ \E k \in 1..Len(benchmark_results) :
          /\ origin[k].run_cpu
          /\ benchmark_results[k].accelerated_time = <<2, 1>>
          /\ benchmark_results[k].baseline_time = <<4, 1>>
          /\ benchmark_results[k].speedup = <<2, 1>>
    /\ \E k \in 1..Len(benchmark_results) :
          /\ origin[k].run_cpu
          /\ benchmark_results[k].accelerated_time = <<1, 1>>
          /\ benchmark_results[k].speedup = <<4, 1>>

(***************************************************************************)
(* C3: a record carries a speedup only if it carries both runtimes; a      *)
(* record produced with the baseline disabled has neither a speedup nor a  *)
(* baseline_time, and neither the DataFrame conversion, the charts nor the *)
(* CSV export give it one.                                                 *)
(***************************************************************************)
Optional == {"speedup", "baseline_time"}

C3_InResults ==
    \A k \in 1..Len(benchmark_results) :
        LET rec == benchmark_results[k]
        IN /\ "speedup" \in DOMAIN rec =>
                {"accelerated_time", "baseline_time"} \subseteq DOMAIN rec
           /\ ~origin[k].run_cpu => DOMAIN rec \cap Optional = {}

C3_InDataFrame ==
    \A k \in 1..Len(df.rows) :
        ~df_origin[k].run_cpu =>
            \A c \in Optional \cap df.columns : IsNaN(df.rows[k][c])

\* Rows of df made with the baseline enabled.
WithBaseline == { k \in 1..Len(df.rows) : df_origin[k].run_cpu }

C3_InOutputs ==
    /\ (out.cell = "chart_single" /\ out.status = "ok") =>
          \A p \in DOMAIN out.value.table.cell :
              ~IsNaN(out.value.table.cell[p]) =>
                  \E k \in WithBaseline :
                      /\ df.rows[k].algo = out.value.algorithm
                      /\ df.rows[k].n_samples = p[1]
                      /\ df.rows[k].n_features = p[2]
    /\ (out.cell = "chart_all" /\ out.status = "ok") =>
          \A g \in out.value.keys :
              ~IsNaN(out.value.mean[g]) =>
                  \E k \in WithBaseline : <<df.rows[k].algo, df.rows[k].n_samples>> = g
    /\ (out.cell = "csv" /\ out.status = "ok") =>
          \A k \in 1..Len(out.value.lines) :
              ~df_origin[k].run_cpu =>
                  \A c \in Optional \cap out.value.header :
                      out.value.lines[k][c] = EmptyField

C3_SpeedupNotFabricated == C3_InResults /\ C3_InDataFrame /\ C3_InOutputs

\* The CSV was written from a frame that holds a baseline-disabled row next to
\* a row with a speedup.
C3_Witness ==
    /\ out.cell = "csv" /\ out.status = "ok"
    /\ "speedup" \in df.columns
    /\ \E k \in 1..Len(df.rows) : ~df_origin[k].run_cpu
    /\ \E k \in 1..Len(df.rows) : ~IsNaN(df.rows[k].speedup)


(***************************************************************************)
(* C4: benchmark_results is append-only over any sequence of cell          *)
(* executions: every step keeps the old list as a prefix of the new one.   *)
(* Stated as written, this fails when the configuration cell is executed   *)
(* again (benchmark_results = []).                                         *)
(***************************************************************************)
C4_AppendOnly == [][IsPrefix(benchmark_results, benchmark_results')]_vars

\* C4, amended: every step other than an execution of the configuration cell
\* keeps the old list, records and positions unchanged, as a prefix of the new one.
C4_AppendOnlyUnlessReset ==
    [][(\E n_reps \in RepChoices : ConfigCell(n_reps))
          \/ IsPrefix(benchmark_results, benchmark_results')]_vars

\* Two invocations have appended, the second after the first.
C4_Witness ==
    /\ Len(benchmark_results) >= 2
    /\ origin[1].inv = 1
    /\ origin[Len(origin)].inv = 2

(***************************************************************************)
(* C5: when a step of an execute_benchmark invocation fails, the error     *)
(* surfaces to the cell, the cell makes no further progress, and           *)
(* benchmark_results is what it was before the failure.                    *)
(***************************************************************************)
C5_FailureKeepsResults ==
    /\ [][Fails => /\ benchmark_results' = benchmark_results
                   /\ out'.error = frame.pc
                   /\ frame' = NoFrame]_vars
    /\ []((out.cell = "benchmark" /\ out.status = "error") => Idle)

\* A metric computation failed while records of an earlier invocation were held.
C5_Witness ==
    /\ out.cell = "benchmark" /\ out.status = "error" /\ out.error = "metric"
    /\ Len(benchmark_results) > 0

(***************************************************************************)
(* C6: a sweep point at which an external call (fit, predict) failed       *)
(* contributes no record to benchmark_results, complete or partial.        *)
(* failed holds the point of the invocation that raised last, until the    *)
(* next invocation starts; only an invocation appends records.             *)
(***************************************************************************)
C6_NoRecordOfFailedPoint ==
    \A k \in 1..Len(benchmark_results) :
        <<origin[k].inv, benchmark_results[k].n_samples,
          benchmark_results[k].n_features, origin[k].rep>> \notin failed

\* An accelerated fit failed at the second repetition of a sweep, and the list
\* holds the records of another invocation.
C6_Witness ==
    /\ out.cell = "benchmark" /\ out.status = "error" /\ out.error = "fit_accel"
    /\ \E p \in failed : p[4] = 2
    /\ Len(benchmark_results) > 0

(***************************************************************************)
(* C7: no retry and no fallback: each fit of a sweep point and repetition  *)
(* is attempted at most once, and a baseline fit that raises ends the      *)
(* invocation instead of leaving an accelerated-only record.               *)
(***************************************************************************)
C7_NoRetryNoFallback ==
    /\ [](\A a, b \in 1..Len(fit_log) : a # b => fit_log[a] # fit_log[b])
    /\ [][(frame.pc = "fit_base" /\ Fails) =>
             /\ frame' = NoFrame
             /\ benchmark_results' = benchmark_results]_vars
    /\ [](\A k \in 1..Len(benchmark_results) :
             origin[k].run_cpu => "baseline_time" \in DOMAIN benchmark_results[k])

\* A baseline fit raised after the accelerated fit of the same point had run.
C7_Witness ==
    /\ out.cell = "benchmark" /\ out.status = "error" /\ out.error = "fit_base"
    /\ Len(fit_log) >= 2
    /\ fit_log[Len(fit_log)][4] = "baseline"
    /\ fit_log[Len(fit_log) - 1][4] = "accelerated"

(***************************************************************************)
(* C8: every record in benchmark_results carries the algorithm name of the *)
(* invocation that produced it and the dataset name and input type of the  *)
(* runner of that invocation.                                              *)
(***************************************************************************)
C8_RecordsAreTagged ==
    \A k \in 1..Len(benchmark_results) :
        LET rec == benchmark_results[k]
        IN /\ {"algo", "dataset_name", "input_type"} \subseteq DOMAIN rec
           /\ rec.algo = origin[k].algorithm
           /\ rec.dataset_name = origin[k].dataset_name
           /\ rec.input_type = origin[k].input_type

\* Records of two algorithms on two datasets are held.
C8_Witness ==
    \E k, m \in 1..Len(benchmark_results) :
        /\ benchmark_results[k].algo = "LinearRegression"
        /\ benchmark_results[k].dataset_name = DATA_REGRESSION
        /\ benchmark_results[m].algo = "TSNE"
        /\ benchmark_results[m].dataset_name = DATA_NEIGHBORHOODS
        /\ benchmark_results[m].input_type = INPUT_TYPE

(***************************************************************************)
(* C9: pivoting the records of one algorithm from a complete sweep (with   *)
(* the baseline enabled) yields a table indexed by the row counts of the   *)
(* sweep, with the feature counts as columns, each cell holding exactly    *)
(* one speedup.                                                            *)
(***************************************************************************)
C9_PivotOfCompleteSweep ==
    (out.cell = "chart_single" /\ "algo" \in df.columns) =>
        LET K == Selected(df, out.value.algorithm)
            t == out.value.table
        IN (/\ K # {}
            /\ \A k, m \in K : df_origin[k].inv = df_origin[m].inv
            /\ \A k \in K : df_origin[k].run_cpu) =>
               LET rows == { BenchRows[i] : i \in 1..Len(BenchRows) }
                   dims == { SKINNY_FEATURES[j] : j \in 1..Len(SKINNY_FEATURES) }
               IN /\ t.status = "ok"
                  /\ t.index = rows
                  /\ t.columns = dims
                  /\ \A ns \in rows, nf \in dims :
                        /\ Cardinality(Feeding(df, K, ns, nf)) = 1
                        /\ ~IsNaN(t.cell[<<ns, nf>>])

(***************************************************************************)
(* C10: the aggregation yields, for each (algorithm, row count, feature    *)
(* count), the mean of the speedups of the repetitions of that key only.   *)
(* Stated as written, this fails: the code groups by (algo, n_samples).    *)
(***************************************************************************)
\* Rows of df with a speedup and the given algorithm and row count.
RowsOf(algorithm, ns) ==
    { k \in 1..Len(df.rows) :
        /\ df.rows[k].algo = algorithm
        /\ df.rows[k].n_samples = ns
        /\ ~IsNaN(df.rows[k].speedup) }

RECURSIVE SumUpTo(_, _)
SumUpTo(K, n) ==
    IF n = 0 THEN <<0, 1>>
    ELSE LET rest == SumUpTo(K, n - 1)
             x == df.rows[n].speedup
         IN IF n \in K THEN <<rest[1] * x[2] + x[1] * rest[2], rest[2] * x[2]>> ELSE rest

\* m is the mean of the speedups at positions K (K not empty).
IsMeanOf(m, K) ==
    LET sum == SumUpTo(K, Len(df.rows))
    IN m[2] # 0 /\ m[1] * Cardinality(K) * sum[2] = sum[1] * m[2]

AlgorithmOrders ==
    { order \in [1..Cardinality(Algorithms) -> Algorithms] :
        \A a, b \in DOMAIN order : a # b => order[a] # order[b] }

RECURSIVE InAlgorithmOrder(_, _, _)
InAlgorithmOrder(rows, order, n) ==
    IF n = 0 THEN <<>>
    ELSE InAlgorithmOrder(rows, order, n - 1)
            \o SelectSeq(rows, LAMBDA row : row.algo = order[n])

C11_AggregationOrderIndependent ==
    (out.cell = "chart_all" /\ out.status = "ok") =>
        \A order \in AlgorithmOrders :
            chart_all_algo_speedup(
                [df EXCEPT !.rows = InAlgorithmOrder(df.rows, order, Len(order))])
              = out.value

\* A frame whose first rows are TSNE's and whose last are LinearRegression's
\* has been aggregated, and a group has a mean.
C11_Witness ==
    /\ out.cell = "chart_all" /\ out.status = "ok"
    /\ Len(df.rows) > 0
    /\ df.rows[1].algo = "TSNE"
    /\ df.rows[Len(df.rows)].algo = "LinearRegression"
    /\ \E g \in out.value.keys : ~IsNaN(out.value.mean[g])

(***************************************************************************)
(* C12: the records of one invocation are held in sweep traversal order    *)
(* (row count outer, feature count inner, repetition innermost), and the   *)
(* records of an earlier invocation all precede those of a later one, so   *)
(* the records of two invocations are never interleaved.                   *)
(***************************************************************************)
\* Position of value x in the list s (0 when absent).
IndexIn(s, x) == IF \E n \in 1..Len(s) : s[n] = x
                 THEN CHOOSE n \in 1..Len(s) : s[n] = x ELSE 0

\* The sweep point of record k precedes that of record m in traversal order.
TraversedBefore(k, m) ==
    LET ik == IndexIn(BenchRows, benchmark_results[k].n_samples)
        im == IndexIn(BenchRows, benchmark_results[m].n_samples)
        jk == IndexIn(SKINNY_FEATURES, benchmark_results[k].n_features)
        jm == IndexIn(SKINNY_FEATURES, benchmark_results[m].n_features)
    IN \/ ik < im
       \/ ik = im /\ jk < jm
       \/ ik = im /\ jk = jm /\ origin[k].rep < origin[m].rep

C12_AppendOrder ==
    \A k, m \in 1..Len(benchmark_results) :
        k < m => \/ origin[k].inv < origin[m].inv
                 \/ origin[k].inv = origin[m].inv /\ TraversedBefore(k, m)

\* Two invocations of sweeps with several row counts, feature counts and
\* repetitions have appended.
C12_Witness ==
    /\ Len(benchmark_results) >= 16
    /\ origin[1].inv # origin[Len(origin)].inv
    /\ origin[2].rep = 2
    /\ benchmark_results[1].n_features # benchmark_results[3].n_features
    /\ benchmark_results[1].n_samples # benchmark_results[5].n_samples

(***************************************************************************)
(* C13: every row of the exported CSV has the fields algorithm (the column *)
(* algo), dataset_name, input_type, n_samples, n_features and speedup.     *)
(* Stated as written, this fails: the row of a record made with the        *)
(* baseline disabled has no speedup.                                       *)
(***************************************************************************)
TagAndShapeFields == {"algo", "dataset_name", "input_type", "n_samples", "n_features"}

C13_EveryRowHasSpeedup ==
    (out.cell = "csv" /\ out.status = "ok") =>
        \A k \in 1..Len(out.value.lines) :
            /\ TagAndShapeFields \cup {"speedup"} \subseteq out.value.header
            /\ out.value.lines[k].speedup # EmptyField

\* C13, amended: the CSV has one row per row of df; every row has the fields
\* algo, dataset_name, input_type, n_samples and n_features of its record; it
\* has a speedup exactly when the baseline was enabled for the invocation that
\* made the record, and otherwise its speedup field is empty or, when no
\* record of the frame has a speedup, the column does not exist.
C13_FieldsOfCsvRows ==
    (out.cell = "csv" /\ out.status = "ok") =>
        /\ Len(out.value.lines) = Len(df.rows)
        /\ out.value.header = df.columns
        /\ \A k \in 1..Len(out.value.lines) :
              LET line == out.value.lines[k]
              IN /\ TagAndShapeFields \subseteq out.value.header
                 /\ line.algo = df_origin[k].algorithm
                 /\ line.dataset_name = df_origin[k].dataset_name
                 /\ line.input_type = df_origin[k].input_type
                 /\ line.n_samples = df.rows[k].n_samples
                 /\ line.n_features = df.rows[k].n_features
                 /\ IF df_origin[k].run_cpu
                    THEN /\ "speedup" \in out.value.header
                         /\ line.speedup # EmptyField
                         /\ line.speedup = Speedup(line.baseline_time, line.accelerated_time)
                    ELSE \/ "speedup" \notin out.value.header
                         \/ line.speedup = EmptyField

\* A file with a row that has a speedup and a row whose speedup field is empty
\* has been written.
C13_Witness ==
    /\ out.cell = "csv" /\ out.status = "ok"
    /\ "speedup" \in out.value.header
    /\ \E k, m \in 1..Len(out.value.lines) :
          /\ out.value.lines[k].speedup = EmptyField
          /\ out.value.lines[m].speedup = <<2, 1>>

(***************************************************************************)
(* C14: execution is single-threaded and blocking: while a call of an      *)
(* invocation is in progress no other invocation starts, and nothing reads *)
(* benchmark_results (the conversion into df) or appends to it; the only   *)
(* append is the invocation's own, after runner.run has returned.          *)
(***************************************************************************)
C14_SingleThreaded ==
    [][frame.pc # "idle" =>
          /\ n_inv' = n_inv
          /\ df' = df /\ df_origin' = df_origin
          /\ out'.cell = "benchmark"
          /\ frame'.inv \in {frame.inv, 0}
          /\ (benchmark_results' # benchmark_results => frame.pc = "extend")]_vars

\* A baseline fit is in progress while records of an earlier invocation are
\* held and df is bound.
C14_Witness ==
    /\ frame.pc = "fit_base"
    /\ Len(benchmark_results) > 0
    /\ df.defined

(***************************************************************************)
(* C15: no timeout and no cancellation: an invocation whose external calls *)
(* all return (or raise) terminates; from a fit in progress the invocation *)
(* moves on only by the fit returning or raising, and once a fit hangs the *)
(* invocation never ends and nothing, benchmark_results included, changes. *)
(***************************************************************************)
C15_NoTimeout ==
    /\ (frame.pc # "idle") ~> (frame.pc \in {"idle", "hung"})
    /\ [][frame.pc \in {"fit_accel", "fit_base"} =>
             (frame'.pc \in {"fit_base", "metric", "hung"} \/ Fails)]_vars
    /\ [][frame.pc # "hung"]_vars

\* A baseline fit hangs in the second invocation, after records were appended.
C15_Witness ==
    /\ frame.pc = "hung"
    /\ frame.t_accel # NaN
    /\ Len(frame.results) > 0
    /\ Len(benchmark_results) > 0

(***************************************************************************)
(* C17: whether the baseline runs is decided per invocation: the value in  *)
(* effect is the call-site run_cpu argument when the cell passes one and   *)
(* the RUN_CPU default otherwise, whatever earlier invocations passed; the *)
(* baseline estimator is fitted, and a record has a baseline runtime,      *)
(* exactly when that value is true.                                        *)
(***************************************************************************)
\* The run_cpu argument written in the benchmark cell of an algorithm.
ArgumentOf(algorithm) ==
    (CHOOSE site \in CallSites : site.algorithm = algorithm).run_cpu_arg

C17_BaselinePerInvocation ==
    /\ (frame.pc # "idle" =>
             frame.run_cpu = IF ArgumentOf(frame.algorithm) = "omitted"
                             THEN defaults.run_cpu
                             ELSE ArgumentOf(frame.algorithm) = "True")
    /\ (frame.pc = "metric" =>
             (fit_log[Len(fit_log)] = <<frame.i, frame.j, frame.r, "baseline">>
                <=> frame.run_cpu))
    /\ (\A k \in 1..Len(benchmark_results) :
             /\ origin[k].run_cpu <=> "baseline_time" \in DOMAIN benchmark_results[k]
             /\ origin[k].run_cpu <=> ArgumentOf(origin[k].algorithm) = "omitted")

\* The baseline of a LinearRegression invocation is being fitted after a TSNE
\* invocation, which passed run_cpu=False, has appended its records.
C17_Witness ==
    /\ frame.pc = "fit_base"
    /\ frame.algorithm = "LinearRegression"
    /\ Len(benchmark_results) > 0
    /\ origin[1].algorithm = "TSNE"
    /\ ~origin[1].run_cpu

C19_AllOrNothing ==
    /\ frame.pc # "idle" =>
          \A k \in 1..Len(benchmark_results) : origin[k].inv # frame.inv
    /\ \A p \in failed :
          \A k \in 1..Len(benchmark_results) : origin[k].inv # p[1]
    /\ \A k \in 1..Len(benchmark_results) :
          Cardinality({ m \in 1..Len(benchmark_results) : origin[m].inv = origin[k].inv })
            = Len(BenchRows) * Len(SKINNY_FEATURES) * N_REPS

\* A baseline fit raised at the second row count of a sweep, after the points
\* of the first row count had completed, while records of an earlier
\* invocation were held.
C19_Witness ==
    /\ out.cell = "benchmark" /\ out.status = "error" /\ out.error = "fit_base"
    /\ \E p \in failed : p[2] = BenchRows[Len(BenchRows)] /\ p[2] # BenchRows[1]
    /\ Len(benchmark_results) > 0

(***************************************************************************)
(* C20: within one sweep point and repetition the dataset is synthesized   *)
(* once, the accelerated estimator is fitted next, on that dataset, and    *)
(* the baseline estimator (when enabled) right after it, with no other     *)
(* dataset made in between; the record of the point is emitted by the      *)
(* metric step, after the fits.                                            *)
(***************************************************************************)
C20_OrderWithinPoint ==
    /\ [](\A n \in 1..Len(fit_log) :
             LET e == fit_log[n]
             IN /\ e[4] = "gen" =>
                      \A m \in 1..Len(fit_log) : fit_log[m] = e => m = n
                /\ e[4] = "accelerated" =>
                      n > 1 /\ fit_log[n - 1] = <<e[1], e[2], e[3], "gen">>
                /\ e[4] = "baseline" =>
                      n > 1 /\ fit_log[n - 1] = <<e[1], e[2], e[3], "accelerated">>)
    /\ [][Len(frame'.results) > Len(frame.results) =>
             /\ frame.pc = "metric"
             /\ Len(frame'.results) = Len(frame.results) + 1
             /\ fit_log[Len(fit_log)] =
                   <<frame.i, frame.j, frame.r,
                     IF frame.run_cpu THEN "baseline" ELSE "accelerated">>]_vars

\* The metric of the second repetition of a point is being computed after its
\* dataset was made and both estimators were fitted.
C20_Witness ==
    /\ frame.pc = "metric"
    /\ frame.run_cpu
    /\ frame.r = 2
    /\ Len(fit_log) >= 6
    /\ fit_log[Len(fit_log) - 2] = <<frame.i, frame.j, frame.r, "gen">>
    /\ fit_log[Len(fit_log) - 1] = <<frame.i, frame.j, frame.r, "accelerated">>
    /\ fit_log[Len(fit_log)] = <<frame.i, frame.j, frame.r, "baseline">>

InvocationsOf(algorithm) ==
    { origin[k].inv : k \in { m \in 1..Len(origin) : origin[m].algorithm = algorithm } }

\* Positions of the records with the key of record k.
SameKey(k) ==
    { m \in 1..Len(benchmark_results) :
        /\ benchmark_results[m].algo = benchmark_results[k].algo
        /\ benchmark_results[m].n_samples = benchmark_results[k].n_samples
        /\ benchmark_results[m].n_features = benchmark_results[k].n_features }

C22_TwoRecordsPerKey ==
    \A k \in 1..Len(benchmark_results) :
        Cardinality(InvocationsOf(benchmark_results[k].algo)) = 2 =>
            Cardinality(SameKey(k)) = 2

\* C22, amended: a successful invocation appends every record the runner
\* returned, behind the records already held, also when records with the same
\* keys are held; the list then holds, per key, n_reps records for each
\* invocation of the key's algorithm, so 2 * n_reps after the same cell was
\* run twice (two only when n_reps = 1).
C22_NoDeduplication ==
    /\ [][Completes =>
             /\ Len(benchmark_results') = Len(benchmark_results) + Len(frame.results)
             /\ IsPrefix(benchmark_results, benchmark_results')]_vars
    /\ [](\A k \in 1..Len(benchmark_results) :
             Cardinality(SameKey(k)) =
                N_REPS * Cardinality(InvocationsOf(benchmark_results[k].algo)))

\* The same benchmark cell has run twice with two repetitions per sweep point.
C22_Witness ==
    /\ N_REPS = 2
    /\ Len(benchmark_results) = 2 * Len(BenchRows) * Len(SKINNY_FEATURES) * N_REPS
    /\ \A k \in 1..Len(benchmark_results) : benchmark_results[k].algo = "LinearRegression"
    /\ Cardinality(SameKey(1)) = 4
    /\ out.cell = "benchmark" /\ out.status = "ok"

(***************************************************************************)
(* C23: the conversion is a snapshot: df holds, row for row and in the     *)
(* same order, the records benchmark_results held when the conversion cell *)
(* was executed; no other cell changes df, so records appended afterwards  *)
(* are in neither the charts nor the CSV, which are made from df, until    *)
(* the conversion cell is executed again.                                  *)
(***************************************************************************)
\* Row k of frame d holds the values of record rec and NaN in every other column.
RowIsRecord(d, k, rec) ==
    /\ DOMAIN rec \subseteq d.columns
    /\ \A c \in d.columns :
          d.rows[k][c] = IF c \in DOMAIN rec THEN rec[c] ELSE NaN

C23_Snapshot ==
    /\ [][ConvertCell =>
             /\ Len(df'.rows) = Len(benchmark_results)
             /\ \A k \in 1..Len(benchmark_results) :
                   RowIsRecord(df', k, benchmark_results[k])
             /\ df_origin' = origin]_vars
    /\ [][ConvertCell \/ (df' = df /\ df_origin' = df_origin)]_vars
    /\ []((out.cell = "csv" /\ out.status = "ok") =>
             /\ Len(out.value.lines) = Len(df_origin)
             /\ \A k \in 1..Len(out.value.lines) :
                   /\ out.value.lines[k].algo = df_origin[k].algorithm
                   /\ out.value.lines[k].n_samples = df.rows[k].n_samples
                   /\ out.value.lines[k].n_features = df.rows[k].n_features
                   /\ out.value.lines[k].accelerated_time = df.rows[k].accelerated_time)
    /\ []((out.cell = "chart_all" /\ out.status = "ok") =>
             out.value.keys = { <<df_origin[k].algorithm, df.rows[k].n_samples>> :
                                  k \in 1..Len(df_origin) })

\* The CSV has been written from a frame converted before the records of a
\* later invocation, of another algorithm, were appended.
C23_Witness ==
    /\ out.cell = "csv" /\ out.status = "ok"
    /\ Len(df.rows) > 0
    /\ Len(benchmark_results) > Len(df.rows)
    /\ IsPrefix(df_origin, origin)
    /\ \A k \in 1..Len(out.value.lines) :
          out.value.lines[k].algo # benchmark_results[Len(benchmark_results)].algo

(***************************************************************************)
(* C24: the defaults of execute_benchmark are captured when the function   *)
(* is defined: assigning VERBOSE or RUN_CPU afterwards leaves them as they *)
(* are, a call that omits the argument uses the captured value and not the *)
(* global, and only executing the defining cell again takes the new value. *)
(***************************************************************************)
C24_DefaultsCapturedAtDefinition ==
    /\ [][(VERBOSE' # VERBOSE \/ RUN_CPU' # RUN_CPU) => defaults' = defaults]_vars
    /\ [][defaults' # defaults =>
             Idle /\ defaults' = [verbose |-> VERBOSE, run_cpu |-> RUN_CPU]]_vars
    /\ [][frame.pc = "idle" /\ frame'.pc # "idle" =>
             /\ frame'.verbose = defaults.verbose
             /\ ArgumentOf(frame'.algorithm) = "omitted" => frame'.run_cpu = defaults.run_cpu]_vars
    /\ [][frame.pc = "fit_accel" /\ ArgumentOf(frame.algorithm) = "omitted" =>
             (frame'.pc = "fit_base" <=> defaults.run_cpu)]_vars

\* RUN_CPU and VERBOSE were set to False after execute_benchmark was defined,
\* and a cell that omits run_cpu is fitting the baseline.
C24_Witness ==
    /\ ~RUN_CPU /\ ~VERBOSE
    /\ defaults.run_cpu /\ defaults.verbose
    /\ frame.pc = "fit_base"
    /\ frame.verbose
    /\ ArgumentOf(frame.algorithm) = "omitted"

(***************************************************************************)
(* C25: when the notebook is executed top to bottom, the baseline is       *)
(* disabled for exactly the algorithms TSNE, MBSGDClassifier, SVC-Linear,  *)
(* SVC-RBF and SVR-Linear and enabled for every other benchmarked          *)
(* algorithm, SVR-RBF included; exactly the records (and the rows of df)   *)
(* of those five have no speedup.                                          *)
(***************************************************************************)
WithoutBaseline == {"TSNE", "MBSGDClassifier", "SVC-Linear", "SVC-RBF", "SVR-Linear"}

C25_BaselineDisabledForFive ==
    /\ frame.pc # "idle" =>
          /\ frame.algorithm = BenchmarkCells[n_inv].algorithm
          /\ frame.run_cpu <=> frame.algorithm \notin WithoutBaseline
          /\ (frame.pc = "fit_base" => frame.algorithm \notin WithoutBaseline)
    /\ \A k \in 1..Len(benchmark_results) :
          /\ benchmark_results[k].algo = BenchmarkCells[origin[k].inv].algorithm
          /\ "speedup" \in DOMAIN benchmark_results[k]
                <=> benchmark_results[k].algo \notin WithoutBaseline
    /\ (Ran("benchmark") /\ n_inv = Len(BenchmarkCells)) =>
          { benchmark_results[k].algo :
              k \in { m \in 1..Len(benchmark_results) :
                        "speedup" \notin DOMAIN benchmark_results[m] } } = WithoutBaseline
    /\ df.defined =>
          \A k \in 1..Len(df.rows) :
              IsNaN(df.rows[k].speedup) <=> df.rows[k].algo \in WithoutBaseline

\* The run has reached the conversion: df holds rows of all the benchmarked
\* algorithms, with a speedup for SVR-RBF and without one for SVR-Linear.
C25_Witness ==
    /\ Ran("convert")
    /\ { df.rows[k].algo : k \in 1..Len(df.rows) }
          = { BenchmarkCells[n].algorithm : n \in 1..Len(BenchmarkCells) }
    /\ \E k, m \in 1..Len(df.rows) :
          /\ df.rows[k].algo = "SVR-RBF" /\ ~IsNaN(df.rows[k].speedup)
          /\ df.rows[m].algo = "SVR-Linear" /\ IsNaN(df.rows[m].speedup)

\* Two label vectors put the same samples together.
SamePartition(a, b) ==
    \A s, t \in 1..Len(a) : (a[s] = a[t]) <=> (b[s] = b[t])

TagFields == {"algo", "dataset_name", "input_type"}

(***************************************************************************)
(* C28: enrich_result sets exactly the fields algo, dataset_name and       *)
(* input_type of the record it is given and returns that record: each      *)
(* record a completing invocation appends is the record the runner         *)
(* returned at that position with the three tags of the invocation added   *)
(* and every other field unchanged, and enriching it once more with the    *)
(* same algorithm and runner gives the same record.                        *)
(***************************************************************************)
C28_EnrichSetsThreeFields ==
    [][Completes =>
         \A k \in 1..Len(frame.results) :
             LET given == frame.results[k]
                 rec == benchmark_results'[Len(benchmark_results) + k]
             IN /\ DOMAIN rec = DOMAIN given \cup TagFields
                /\ \A field \in DOMAIN given \ TagFields : rec[field] = given[field]
                /\ rec.algo = frame.algorithm
                /\ rec.dataset_name = frame.runner.dataset_name
                /\ rec.input_type = frame.runner.input_type
                /\ enrich_result(frame.algorithm, frame.runner, rec) = rec]_vars

\* An invocation has completed and left a record that carries its tags next
\* to both runtimes and the speedup of the runner's record.
C28_Witness ==
    /\ frame.pc = "idle"
    /\ out.cell = "benchmark" /\ out.status = "ok"
    /\ \E k \in 1..Len(benchmark_results) :
          /\ benchmark_results[k].algo = origin[k].algorithm
          /\ {"accelerated_time", "baseline_time", "speedup"} \subseteq DOMAIN benchmark_results[k]

(***************************************************************************)
(* C29: when the pickling and the k-means notebook are executed top to     *)
(* bottom, no statement reads a name that has been deleted and no          *)
(* NameError is raised: after `del cuml_model` the pickling notebook reads *)
(* pickled_cuml_model and never cuml_model, and after `del X_cp` the       *)
(* k-means notebook never reads X_cp.                                      *)
(***************************************************************************)
C29_NoUseAfterDelete ==
    /\ \A notebook \in Notebooks :
          LET k == kernels[notebook]
              program == StatementsOf(notebook)
          IN /\ k.error # "NameError"
             /\ k.pc <= Len(program) => program[k.pc].reads \cap k.deleted = {}
    /\ kernels["pickling"].deleted \subseteq {"cuml_model"}
    /\ kernels["kmeans"].deleted \subseteq {"X_cp"}
    /\ "pred_after_pickling" \in kernels["pickling"].bound
          => /\ kernels["pickling"].deleted = {"cuml_model"}
             /\ "pickled_cuml_model" \in kernels["pickling"].bound

\* Both notebooks have run to their last statement, with cuml_model and X_cp
\* deleted on the way.
C29_Witness ==
    /\ \A notebook \in Notebooks :
          /\ kernels[notebook].pc = Len(StatementsOf(notebook)) + 1
          /\ kernels[notebook].error = ""
    /\ kernels["pickling"].deleted = {"cuml_model"}
    /\ kernels["kmeans"].deleted = {"X_cp"}

====
